---- MODULE Spec2Model ----
(***************************************************************************)
(* GoogleCalendarService (src/googlecalendar.py): the authenticate         *)
(* decorator, _connect, and the five event operations, driven by one       *)
(* synchronous caller.  The OAuth libraries, the local files and the       *)
(* remote calendar API are the environment: every outcome they can produce *)
(* is a nondeterministic choice.                                           *)
(*                                                                         *)
(* Python values: Optional[x] is <<>> (None) or <<x>>; a dict with ordered *)
(* items is a sequence of <<key, value>> pairs; keyword arguments are a    *)
(* function from names to values; JSON text is a sequence of tokens.       *)
(***************************************************************************)
EXTENDS Integers, Sequences, FiniteSets, TLC

VARIABLES
    credentials,   \* self.credentials: None or a Credentials object
    service,       \* self.service: None or the client built by build()
    token_file,    \* the cached-token file: absent or its content
    expired,       \* the access tokens whose expiry has passed
    flows,         \* OAuth installed-app flows completed so far
    pc,            \* position of the caller: idle, body, loop, wait, done
    op,            \* the public operation in progress (or the last one)
    args,          \* its arguments
    params,        \* find_many_events: the local dict params
    events,        \* find_many_events: the local list events
    page_token,    \* find_many_events: the local page_token
    request,       \* the remote requests sent and not yet answered
    result,        \* the text the last call returned
    outcome,       \* how the last call ended: none, returned, raised
    exc,           \* the exception a raised call ended with
    authlog,       \* what the authentication step of this call did
    kwargs,        \* keyword arguments of the last endpoint method invoked
    response,      \* the last response the remote API returned
    fetched,       \* items of the pages fetched in this call, in request order
    firstParams,   \* kwargs of the first events.list request of this call
    nreq,          \* remote requests issued in this call
    failed,        \* a request of this call failed with HttpError
    paginated      \* an earlier call on this object sent a pageToken

vars == <<credentials, service, token_file, expired, flows, pc, op, args,
          params, events, page_token, request, result, outcome, exc, authlog,
          kwargs, response, fetched, firstParams, nreq, failed, paginated>>

authVars == <<credentials, service, token_file, expired, flows>>
listVars == <<params, events, page_token, fetched, firstParams>>

----------------------------------------------------------------------------
(* Bounds and the values the environment and the caller draw from.         *)

MaxFlows == 1          \* OAuth flows the user completes
MaxPages == 2          \* pages the remote API serves with a nextPageToken chain

MaxResultsCap == 100   \* min(limit, 100)

None == <<>>
Some(x) == <<x>>
Truthy(opt) == opt # None

CalendarId == "primary"

PyStr(s) == <<"str", s>>     \* a Python str
PyTrue == <<"bool", "True">>  \* Python True

R1 == << <<"id", PyStr("e1")>>, <<"summary", PyStr("gato")>> >>
R2 == << <<"id", PyStr("e2")>> >>
Resources == {R1, R2}
Bodies == { << <<"summary", PyStr("gato")>> >>,
            << <<"summary", PyStr("x")>>, <<"location", PyStr("casa")>> >> }
EventIds == {"e1", "e2"}
Limits == {-1, 0, 1, 3, 101}
PageItems == {<<>>, <<R1>>, <<R2, R1>>}
PageTokens == {"p1", "p2"}
HttpErrors == {"404", "500"}

IsoNaive == {"2025-09-06T10:00:00"}
Dates == {<<None, None>>,
          <<Some("2025-09-06T10:00:00"), Some("tomorrow")>>}
Now == "NOW"

SingleOps == {"find_one_event", "create_event", "update_event", "remove_event"}

----------------------------------------------------------------------------
(* Python helpers.                                                         *)

Min(a, b) == IF a <= b THEN a ELSE b
Max(a, b) == IF a >= b THEN a ELSE b

\* s[:n] for a list s and an integer n (a negative n counts from the end)
SlicePrefix(s, n) ==
    IF n >= 0 THEN SubSeq(s, 1, Min(n, Len(s)))
    ELSE SubSeq(s, 1, Max(Len(s) + n, 0))

\* d.get(k, default) for a dict d held as a function
Get(d, k, default) == IF k \in DOMAIN d THEN d[k] ELSE default

\* d with d[k] = v added or replaced
Put(d, k, v) == [x \in DOMAIN d \cup {k} |-> IF x = k THEN v ELSE d[x]]

----------------------------------------------------------------------------
(* json.dumps: a Python value to JSON text.  A token is <<kind, text>>:    *)
(* punctuation, a string literal, or the literal true.                     *)

P(c) == <<"p", c>>
Lit(s) == <<"str", s>>

dumps_scalar(v) == IF v[1] = "bool" THEN <<"lit", "true">> ELSE Lit(v[2])

RECURSIVE dumps_items(_)
dumps_items(d) ==
    IF d = <<>> THEN <<>>
    ELSE <<Lit(d[1][1]), P(":"), dumps_scalar(d[1][2])>>
         \o (IF Len(d) > 1 THEN <<P(",")>> ELSE <<>>) \o dumps_items(Tail(d))

dumps_dict(d) == <<P("{")>> \o dumps_items(d) \o <<P("}")>>

RECURSIVE dumps_elems(_)
dumps_elems(l) ==
    IF l = <<>> THEN <<>>
    ELSE dumps_dict(l[1])
         \o (IF Len(l) > 1 THEN <<P(",")>> ELSE <<>>) \o dumps_elems(Tail(l))

dumps_list(l) == <<P("[")>> \o dumps_elems(l) \o <<P("]")>>

(* Reading JSON text back: an object of scalar members, or an array of     *)
(* such objects.  Malformed text reads as Malformed.                       *)

Malformed == << <<"malformed", <<"str", "">> >> >>

loads_scalar(t) == IF t[1] = "lit" THEN PyTrue ELSE PyStr(t[2])

\* the members of an object whose text between the braces is toks
RECURSIVE loads_items(_)
loads_items(toks) ==
    IF Len(toks) < 3 \/ toks[1][1] # "str" \/ toks[2] # P(":")
       \/ toks[3][1] \notin {"str", "lit"}
    THEN Malformed
    ELSE LET item == <<toks[1][2], loads_scalar(toks[3])>> IN
         IF Len(toks) = 3 THEN <<item>>
         ELSE IF toks[4] # P(",") THEN Malformed
         ELSE LET rest == loads_items(SubSeq(toks, 5, Len(toks))) IN
              IF rest = Malformed THEN Malformed ELSE <<item>> \o rest

IsObjectText(toks) ==
    Len(toks) >= 2 /\ toks[1] = P("{") /\ toks[Len(toks)] = P("}")

loads_dict(toks) ==
    IF ~IsObjectText(toks) THEN Malformed
    ELSE IF Len(toks) = 2 THEN <<>>
    ELSE loads_items(SubSeq(toks, 2, Len(toks) - 1))

\* index of the first closing brace of toks, 0 if none
RECURSIVE CloseAt(_, _)
CloseAt(toks, i) ==
    IF i > Len(toks) THEN 0
    ELSE IF toks[i] = P("}") THEN i ELSE CloseAt(toks, i + 1)

\* the objects of an array whose text between the brackets is toks
RECURSIVE loads_elems(_)
loads_elems(toks) ==
    LET c == CloseAt(toks, 1) IN
    IF c = 0 THEN <<Malformed>>
    ELSE LET first == loads_dict(SubSeq(toks, 1, c)) IN
         IF c = Len(toks) THEN <<first>>
         ELSE IF toks[c + 1] # P(",") THEN <<Malformed>>
         ELSE <<first>> \o loads_elems(SubSeq(toks, c + 2, Len(toks)))

IsArrayText(toks) ==
    Len(toks) >= 2 /\ toks[1] = P("[") /\ toks[Len(toks)] = P("]")

loads_list(toks) ==
    IF ~IsArrayText(toks) THEN <<Malformed>>
    ELSE IF Len(toks) = 2 THEN <<>>
    ELSE loads_elems(SubSeq(toks, 2, Len(toks) - 1))

\* the value of member k of a decoded object, None if it has none
RECURSIVE Member(_, _)
Member(d, k) ==
    IF d = <<>> THEN None
    ELSE IF d[1][1] = k THEN Some(d[1][2]) ELSE Member(Tail(d), k)

----------------------------------------------------------------------------
(* Credentials, the token file and the OAuth flow.                         *)

Creds(t) == [token |-> t]

\* self.credentials and self.credentials.valid
IsValid(c, exp) == c # None /\ c[1].token \notin exp

\* Credentials.to_json / Credentials.from_authorized_user_file
to_json(c) == [kind |-> "authorized_user", token |-> c.token]
Garbage == [kind |-> "garbage", token |-> -1]
Readable(text) == text.kind = "authorized_user"
from_authorized_user_file(text) == Creds(text.token)

\* what the OAuth libraries and the file system do during one call
AuthEnvs == [secret : BOOLEAN, consent : BOOLEAN, writable : BOOLEAN, buildOk : BOOLEAN]

NoLog == [called |-> FALSE, readToken |-> FALSE, readSecret |-> FALSE,
          flowRan |-> FALSE, wrote |-> FALSE, written |-> None]

ConnectResult(c, f, n, raised, log) ==
    [credentials |-> c, token_file |-> f, flows |-> n, raised |-> raised, log |-> log]

\* _connect with the token file written whenever credentials are held at the end
connect_WritesCached(c, f, exp, n, env) ==
    LET log0 == [NoLog EXCEPT !.called = TRUE] IN
    IF IsValid(c, exp) THEN ConnectResult(c, f, n, FALSE, log0)
    ELSE
    LET log1 == [log0 EXCEPT !.readToken = (f # None)] IN
    IF f # None /\ ~Readable(f[1]) THEN ConnectResult(c, f, n, TRUE, log1)
    ELSE
    LET c1 == IF f # None THEN Some(from_authorized_user_file(f[1])) ELSE c IN
    IF IsValid(c1, exp)
    THEN ConnectResult(c1, Some(to_json(c1[1])), n, FALSE,
                       [log1 EXCEPT !.wrote = TRUE, !.written = Some(to_json(c1[1]))])
    ELSE
    LET log2 == [log1 EXCEPT !.readSecret = TRUE] IN
    IF ~env.secret \/ ~env.consent THEN ConnectResult(c1, f, n, TRUE, log2)
    ELSE
    LET c2 == Creds(n + 1)
        log3 == [log2 EXCEPT !.flowRan = TRUE, !.wrote = TRUE,
                             !.written = Some(to_json(c2))]
    IN  IF ~env.writable THEN ConnectResult(Some(c2), f, n + 1, TRUE, log3)
        ELSE ConnectResult(Some(c2), Some(to_json(c2)), n + 1, FALSE, log3)

\* GoogleCalendarService._connect, given what the environment does
connect(c, f, exp, n, env) ==
    LET log0 == [NoLog EXCEPT !.called = TRUE] IN
    IF IsValid(c, exp) THEN ConnectResult(c, f, n, FALSE, log0)
    ELSE
    LET log1 == [log0 EXCEPT !.readToken = (f # None)] IN
    IF f # None /\ ~Readable(f[1]) THEN ConnectResult(c, f, n, TRUE, log1)
    ELSE
    LET c1 == IF f # None THEN Some(from_authorized_user_file(f[1])) ELSE c IN
    IF IsValid(c1, exp) THEN ConnectResult(c1, f, n, FALSE, log1)
    ELSE
    LET log2 == [log1 EXCEPT !.readSecret = TRUE] IN
    IF ~env.secret \/ ~env.consent THEN ConnectResult(c1, f, n, TRUE, log2)
    ELSE
    LET c2 == Creds(n + 1)
        log3 == [log2 EXCEPT !.flowRan = TRUE, !.wrote = TRUE,
                             !.written = Some(to_json(c2))]
    IN  IF ~env.writable THEN ConnectResult(Some(c2), f, n + 1, TRUE, log3)
        ELSE ConnectResult(Some(c2), Some(to_json(c2)), n + 1, FALSE, log3)

\* the wrapper of the authenticate decorator, up to the call of func
authenticate(c, s, f, exp, n, env) ==
    LET r == IF ~IsValid(c, exp) THEN connect(c, f, exp, n, env)
             ELSE ConnectResult(c, f, n, FALSE, NoLog)
        built == r.raised = FALSE /\ s = None /\ env.buildOk
        s1 == IF built THEN Some([credentials |-> r.credentials]) ELSE s
    IN  [credentials |-> r.credentials, token_file |-> r.token_file,
         flows |-> r.flows, service |-> s1, log |-> r.log, built |-> built,
         raised |-> r.raised,
         failed |-> (r.raised \/ (s = None /\ ~env.buildOk))]

----------------------------------------------------------------------------
(* The bodies of the five operations.                                      *)

\* datetime.fromisoformat(s), UTC if naive, .isoformat(); s itself on ValueError
TimeParam(s) == IF s \in IsoNaive THEN s \o "+00:00" ELSE s

\* find_many_events: the dict params before the loop
ListParams(limit, start_date, end_date) ==
    LET base == [calendarId |-> CalendarId,
                 maxResults |-> Min(limit, MaxResultsCap),
                 singleEvents |-> TRUE,
                 orderBy |-> "startTime",
                 timeMin |-> IF Truthy(start_date) THEN TimeParam(start_date[1]) ELSE Now]
    IN  IF Truthy(end_date) THEN Put(base, "timeMax", TimeParam(end_date[1])) ELSE base

\* params with the page token never added
WithPageToken_Dropped(p, tok) == p

\* find_many_events: params as passed to events().list
WithPageToken(p, tok) == IF Truthy(tok) THEN Put(p, "pageToken", tok[1]) ELSE p

\* the loop body without the cut to limit
ListStep_NoTruncate(evs, limit, events_result) ==
    LET all == evs \o Get(events_result, "items", <<>>)
        tok == IF "nextPageToken" \in DOMAIN events_result
               THEN Some(events_result["nextPageToken"]) ELSE None
    IN  IF limit # 0 /\ Len(all) >= limit
        THEN [events |-> all, page_token |-> None, break |-> TRUE]
        ELSE [events |-> all, page_token |-> tok, break |-> ~Truthy(tok)]

\* find_many_events: the loop body after execute() returned events_result
ListStep(evs, limit, events_result) ==
    LET all == evs \o Get(events_result, "items", <<>>)
        tok == IF "nextPageToken" \in DOMAIN events_result
               THEN Some(events_result["nextPageToken"]) ELSE None
    IN  IF limit # 0 /\ Len(all) >= limit
        THEN [events |-> SlicePrefix(all, limit), page_token |-> None, break |-> TRUE]
        ELSE [events |-> all, page_token |-> tok, break |-> ~Truthy(tok)]

\* find_many_events: the return after the loop
ListResult(evs) ==
    IF evs = <<>> THEN dumps_dict(<< <<"message", PyStr("no events found")>> >>)
    ELSE dumps_list(evs)

\* the keyword arguments each body passes to its endpoint method
EndpointMethod(o) ==
    CASE o = "find_many_events" -> "list"
      [] o = "find_one_event" -> "get"
      [] o = "create_event" -> "insert"
      [] o = "update_event" -> "update"
      [] o = "remove_event" -> "delete"

EndpointKwargs(o, a) ==
    CASE o = "find_one_event" -> [calendarId |-> CalendarId, eventId |-> a.event_id]
      [] o = "create_event" -> [calendarId |-> CalendarId, body |-> a.data]
      [] o = "update_event" ->
            [calendarId |-> CalendarId, eventId |-> a.event_id, body |-> a.data]
      [] o = "remove_event" -> [calendarId |-> CalendarId, event_id |-> a.event_id]

\* the parameters the calendar API defines for each endpoint method
ApiParams(m) ==
    CASE m = "get" -> {"calendarId", "eventId"}
      [] m = "insert" -> {"calendarId", "body"}
      [] m = "update" -> {"calendarId", "eventId", "body"}
      [] m = "delete" -> {"calendarId", "eventId"}
      [] m = "list" -> {"calendarId", "maxResults", "singleEvents", "orderBy",
                        "timeMin", "timeMax", "pageToken"}

\* the request body echoed instead of the API's reply
OkResult_EchoBody(o, a, event) ==
    IF o = "remove_event"
    THEN dumps_dict(<< <<"success", PyTrue>>,
                       <<"message", PyStr("event $" \o a.event_id \o " removed successfully")>> >>)
    ELSE IF o = "find_one_event" THEN dumps_dict(event) ELSE dumps_dict(a.data)

\* the text returned after a successful execute()
OkResult(o, a, event) ==
    IF o = "remove_event"
    THEN dumps_dict(<< <<"success", PyTrue>>,
                       <<"message", PyStr("event $" \o a.event_id \o " removed successfully")>> >>)
    ELSE dumps_dict(event)

\* the error payload under the key "message"
ErrorResult_MessageKey(o, error) ==
    dumps_dict(<< <<"message", PyStr("an error occurred: " \o error)>> >>)

\* the text returned by the except HttpError clause
ErrorResult(o, error) ==
    IF o = "remove_event"
    THEN dumps_dict(<< <<"error", PyStr("an error occured: " \o error)>> >>)
    ELSE dumps_dict(<< <<"error", PyStr("an error occurred: " \o error)>> >>)

----------------------------------------------------------------------------
(* The state machine.                                                      *)

NoArgs == [limit |-> 0, start_date |-> None, end_date |-> None,
           event_id |-> "", data |-> <<>>]

NoAuthLog == [log |-> NoLog, failed |-> FALSE, built |-> FALSE,
              connectRaised |-> FALSE, hadService |-> FALSE,
              before |-> None, validBefore |-> FALSE, fileBefore |-> None]

\* once func runs, all that is left of the wrapper is whether it failed
AuthOutcome(log) == [NoAuthLog EXCEPT !.failed = log.failed]

Init ==
    /\ credentials = None
    /\ service = None
    /\ token_file \in {None, Some(Garbage), Some(to_json(Creds(0)))}
    /\ expired = {}
    /\ flows = 0
    /\ pc = "idle"
    /\ op = "none"
    /\ args = NoArgs
    /\ params = <<>>
    /\ events = <<>>
    /\ page_token = None
    /\ request = None
    /\ result = <<>>
    /\ outcome = "none"
    /\ exc = ""
    /\ authlog = NoAuthLog
    /\ kwargs = <<>>
    /\ response = <<>>
    /\ fetched = <<>>
    /\ firstParams = <<>>
    /\ nreq = 0
    /\ failed = FALSE
    /\ paginated = FALSE

\* a public operation is called: the wrapper runs, then func is entered
Call(o, a) ==
    /\ pc = "idle"
    /\ \E r \in {authenticate(credentials, service, token_file, expired, flows, env) :
                   env \in AuthEnvs} :
         /\ r.flows <= MaxFlows
         /\ credentials' = r.credentials
         /\ service' = r.service
         /\ token_file' = r.token_file
         /\ flows' = r.flows
         /\ authlog' = [log |-> r.log, failed |-> r.failed, built |-> r.built,
                        connectRaised |-> r.raised,
                        hadService |-> service # None,
                        before |-> credentials,
                        validBefore |-> IsValid(credentials, expired),
                        fileBefore |-> token_file]
    /\ pc' = "body"
    /\ op' = o
    /\ args' = a
    /\ params' = <<>>
    /\ events' = <<>>
    /\ page_token' = None
    /\ request' = None
    /\ result' = <<>>
    /\ outcome' = "none"
    /\ exc' = ""
    /\ kwargs' = <<>>
    /\ response' = <<>>
    /\ fetched' = <<>>
    /\ firstParams' = <<>>
    /\ nreq' = 0
    /\ failed' = FALSE
    /\ UNCHANGED <<expired, paginated>>

find_many_events ==
    \E l \in Limits, d \in Dates :
        Call("find_many_events", [NoArgs EXCEPT !.limit = l, !.start_date = d[1],
                                                !.end_date = d[2]])

find_one_event ==
    \E id \in EventIds : Call("find_one_event", [NoArgs EXCEPT !.event_id = id])

create_event ==
    \E b \in Bodies : Call("create_event", [NoArgs EXCEPT !.data = b])

update_event ==
    \E id \in EventIds, b \in Bodies :
        Call("update_event", [NoArgs EXCEPT !.event_id = id, !.data = b])

remove_event ==
    \E id \in EventIds : Call("remove_event", [NoArgs EXCEPT !.event_id = id])

\* the call ends with an exception raised to the caller
Raise(e) ==
    /\ pc' = "done"
    /\ outcome' = "raised"
    /\ exc' = e
    /\ UNCHANGED result

\* the call returns text
Return(text) ==
    /\ pc' = "done"
    /\ outcome' = "returned"
    /\ result' = text
    /\ UNCHANGED exc

\* find_many_events up to the loop: params, events, page_token
FindManyBody ==
    /\ pc = "body" /\ op = "find_many_events"
    /\ params' = ListParams(args.limit, args.start_date, args.end_date)
    /\ events' = <<>>
    /\ page_token' = None
    /\ pc' = "loop"
    /\ authlog' = AuthOutcome(authlog)
    /\ UNCHANGED <<authVars, op, args, request, result, outcome, exc,
                   kwargs, response, fetched, firstParams, nreq, failed, paginated>>

\* one turn of the loop up to execute(): the request is sent
ListRequest ==
    /\ pc = "loop"
    /\ params' = WithPageToken(params, page_token)
    /\ IF service = None
       THEN /\ Raise("AttributeError")
            /\ UNCHANGED <<request, kwargs, firstParams, nreq>>
       ELSE /\ kwargs' = params'
            /\ request' = Append(request, [method |-> "list", kwargs |-> params',
                                           credentials |-> service[1].credentials])
            /\ firstParams' = IF nreq = 0 THEN params' ELSE firstParams
            /\ nreq' = nreq + 1
            /\ pc' = "wait"
            /\ UNCHANGED <<result, outcome, exc>>
    /\ UNCHANGED <<authVars, op, args, events, page_token, authlog, response,
                   fetched, failed, paginated>>

\* find_one_event, create_event, update_event, remove_event up to execute().
\* A keyword outside the endpoint's parameters is rejected by the discovery
\* client with TypeError and passed on by a stub client.
Invoke ==
    /\ pc = "body" /\ op # "find_many_events"
    /\ IF service = None
       THEN /\ Raise("AttributeError")
            /\ UNCHANGED <<request, kwargs, nreq>>
       ELSE LET kw == EndpointKwargs(op, args)
                m == EndpointMethod(op) IN
            /\ kwargs' = kw
            /\ \/ /\ DOMAIN kw # ApiParams(m)
                  /\ Raise("TypeError")
                  /\ UNCHANGED <<request, nreq>>
               \/ /\ request' = Append(request, [method |-> m, kwargs |-> kw,
                                                 credentials |-> service[1].credentials])
                  /\ nreq' = nreq + 1
                  /\ pc' = "wait"
                  /\ UNCHANGED <<result, outcome, exc>>
    /\ authlog' = AuthOutcome(authlog)
    /\ UNCHANGED <<authVars, op, args, listVars, response, failed, paginated>>

\* the pages events.list can answer with: items and nextPageToken each optional
ListResponses ==
    {<<>>}
    \cup {[items |-> i] : i \in PageItems}
    \cup {[k \in {"nextPageToken"} |-> t] : t \in PageTokens}
    \cup {[items |-> i, nextPageToken |-> t] : i \in PageItems, t \in PageTokens}

\* execute() returns the remote API's response
ExecuteReturns ==
    /\ pc = "wait"
    /\ request' = Tail(request)
    /\ IF op = "find_many_events"
       THEN \E r \in ListResponses :
              LET st == ListStep(events, args.limit, r) IN
              /\ "nextPageToken" \in DOMAIN r => nreq < MaxPages
              /\ response' = r
              /\ fetched' = fetched \o Get(r, "items", <<>>)
              /\ events' = st.events
              /\ page_token' = st.page_token
              /\ IF st.break
                 THEN Return(ListResult(st.events))
                 ELSE /\ pc' = "loop"
                      /\ UNCHANGED <<result, outcome, exc>>
       ELSE \E r \in Resources :
              /\ response' = r
              /\ Return(OkResult(op, args, r))
              /\ UNCHANGED <<events, page_token, fetched>>
    /\ UNCHANGED <<authVars, op, args, params, authlog, kwargs, firstParams,
                   nreq, failed, paginated>>

\* HttpError answered by sending the request again
ExecuteRaisesHttpError_Retry ==
    /\ pc = "wait"
    /\ request' = Tail(request)
    /\ pc' = IF op = "find_many_events" THEN "loop" ELSE "body"
    /\ failed' = TRUE
    /\ UNCHANGED <<authVars, op, args, listVars, authlog, kwargs, response,
                   nreq, paginated, result, outcome, exc>>

\* execute() raises HttpError: the except clause returns the error payload
ExecuteRaisesHttpError ==
    /\ pc = "wait"
    /\ request' = Tail(request)
    /\ \E e \in HttpErrors : Return(ErrorResult(op, e))
    /\ failed' = TRUE
    /\ UNCHANGED <<authVars, op, args, listVars, authlog, kwargs, response,
                   nreq, paginated>>

\* the caller has the outcome of the call; the locals of the call are gone
Continue ==
    /\ pc = "done"
    /\ pc' = "idle"
    /\ op' = "none"
    /\ args' = NoArgs
    /\ params' = <<>>
    /\ events' = <<>>
    /\ page_token' = None
    /\ result' = <<>>
    /\ outcome' = "none"
    /\ exc' = ""
    /\ authlog' = NoAuthLog
    /\ kwargs' = <<>>
    /\ response' = <<>>
    /\ fetched' = <<>>
    /\ firstParams' = <<>>
    /\ nreq' = 0
    /\ failed' = FALSE
    /\ paginated' = (paginated \/ "pageToken" \in DOMAIN params)
    /\ UNCHANGED <<authVars, request>>

TokensInUse ==
    (IF credentials # None THEN {credentials[1].token} ELSE {})
    \cup (IF token_file # None /\ Readable(token_file[1])
          THEN {token_file[1].token} ELSE {})

\* time passes between calls: an access token in use reaches its expiry
Expire ==
    /\ pc = "idle"
    /\ \E t \in TokensInUse \ expired : expired' = expired \cup {t}
    /\ UNCHANGED <<credentials, service, token_file, flows, pc, op, args,
                   listVars, request, result, outcome, exc, authlog, kwargs,
                   response, nreq, failed, paginated>>

Next ==
    \/ find_many_events
    \/ find_one_event
    \/ create_event
    \/ update_event
    \/ remove_event
    \/ FindManyBody
    \/ ListRequest
    \/ Invoke
    \/ ExecuteReturns
    \/ ExecuteRaisesHttpError
    \/ Continue
    \/ Expire

Spec == Init /\ [][Next]_vars

\* The interpreter runs the body on, and execute() blocks until the remote
\* API has answered or failed.
FairSpec ==
    /\ Spec
    /\ WF_vars(FindManyBody)
    /\ WF_vars(ListRequest)
    /\ WF_vars(ExecuteReturns \/ ExecuteRaisesHttpError)

----------------------------------------------------------------------------
(* Properties.                                                             *)

IsPrefix(a, b) == Len(a) <= Len(b) /\ a = SubSeq(b, 1, Len(a))

ErrorTexts ==
    {"an error occurred: " \o e : e \in HttpErrors}
    \cup {"an error occured: " \o e : e \in HttpErrors}

NoEventsFound == << <<"message", PyStr("no events found")>> >>

\* the list of events a returned text carries (none under the message object)
ReturnedEvents == IF IsArrayText(result) THEN loads_list(result) ELSE <<>>

Succeeded == pc = "done" /\ outcome = "returned" /\ ~failed

\* C1: in each of the five operations, a remote request that fails with
\* HttpError makes the call return (not raise) the text of a JSON object
\* with an "error" member that carries the failure's text.
C1_HttpErrorReturnsErrorPayload ==
    (pc = "done" /\ failed) =>
        /\ outcome = "returned"
        /\ loads_dict(result) # Malformed
        /\ \E t \in ErrorTexts : Member(loads_dict(result), "error") = Some(PyStr(t))

C1_Witness ==
    /\ pc = "done" /\ failed /\ outcome = "returned"
    /\ op = "find_many_events" /\ nreq = 2 /\ fetched # <<>>

\* C2: whenever the body of a decorated operation starts, self.credentials
\* is set and valid and self.service is a constructed client.
C2_BodyStartsAuthenticated ==
    pc = "body" => IsValid(credentials, expired) /\ service # None

\* C3: a call whose authentication step failed does not end with an
\* exception raised to the caller.
C3_AuthFailureNotRaised ==
    (pc = "done" /\ authlog.failed) => outcome # "raised"

\* C4: find_one_event, update_event and remove_event pass calendarId (the
\* configured calendar) and eventId (the caller's event_id), create_event
\* and update_event pass the caller's dictionary as body, and no other
\* parameter name is passed.
C4_ForwardsExpectedParameters ==
    (op \in SingleOps /\ DOMAIN kwargs # {}) =>
        /\ DOMAIN kwargs = ApiParams(EndpointMethod(op))
        /\ kwargs.calendarId = CalendarId
        /\ op \in {"find_one_event", "update_event", "remove_event"}
              => kwargs.eventId = args.event_id
        /\ op \in {"create_event", "update_event"} => kwargs.body = args.data

\* the cached token file held valid credentials when the call began
CachedValid ==
    /\ authlog.fileBefore # None
    /\ Readable(authlog.fileBefore[1])
    /\ authlog.fileBefore[1].token \notin expired

\* C5: _connect writes the token file if and only if it completed the
\* OAuth flow, and writes the serialization of the credentials it then
\* holds; with credentials already valid, or valid credentials in the
\* cached token file, it runs no flow, does not read the client-secret
\* file and leaves the token file as it was.
C5_TokenFileWrittenOnNewCredentials ==
    pc = "body" =>
        LET l == authlog.log IN
        /\ l.wrote <=> l.flowRan
        /\ l.wrote => l.written = Some(to_json(credentials[1]))
        /\ (l.flowRan /\ ~authlog.connectRaised) => token_file = l.written
        /\ token_file # authlog.fileBefore => l.flowRan
        /\ (authlog.validBefore \/ CachedValid) =>
              /\ ~l.flowRan /\ ~l.readSecret /\ ~l.wrote
              /\ token_file = authlog.fileBefore

C5_Witness ==
    /\ pc = "body"
    /\ authlog.log.flowRan /\ authlog.log.readToken
    /\ token_file = Some(to_json(credentials[1]))
    /\ token_file # authlog.fileBefore

\* C6: a call of find_one_event, create_event, update_event or
\* remove_event sends at most one request; once a request of a call failed
\* with HttpError the call is over and sends nothing more; at most one
\* request is in flight.
C6_NoRetry ==
    /\ op \in SingleOps => nreq <= 1
    /\ failed => pc = "done"
    /\ Len(request) <= 1
    /\ Len(request) = 1 <=> pc = "wait"

C6_Witness ==
    /\ pc = "done" /\ failed
    /\ op = "find_many_events" /\ nreq = 2 /\ page_token # None
    /\ request = <<>>

C8_LimitAndPrefix ==
    /\ (Succeeded /\ op = "find_many_events") =>
          /\ args.limit > 0 => Len(ReturnedEvents) <= args.limit
          /\ IsPrefix(ReturnedEvents, fetched)
    /\ \A i \in 1..Len(request) :
          request[i].method = "list" =>
             /\ request[i].kwargs.maxResults <= MaxResultsCap
             /\ request[i].kwargs.maxResults <= args.limit
             /\ request[i].kwargs.maxResults \in {args.limit, MaxResultsCap}

C8_Witness ==
    /\ Succeeded /\ op = "find_many_events"
    /\ args.limit = 3 /\ nreq = 2 /\ Len(fetched) = 4
    /\ ReturnedEvents = <<R2, R1, R2>>

\* params without the page token
SansPageToken(p) == [k \in DOMAIN p \ {"pageToken"} |-> p[k]]

C9_RequestChain ==
    \A i \in 1..Len(request) :
        request[i].method = "list" =>
           /\ nreq = 1 => "pageToken" \notin DOMAIN request[i].kwargs
           /\ nreq > 1 =>
                 /\ "nextPageToken" \in DOMAIN response
                 /\ "pageToken" \in DOMAIN request[i].kwargs
                 /\ request[i].kwargs.pageToken = response.nextPageToken
                 /\ SansPageToken(request[i].kwargs) = firstParams

\* C9 as stated: the first request of a call carries no pageToken; each
\* later one carries the nextPageToken of the response before it, all
\* other parameters unchanged; the loop goes on only after a response with
\* a nextPageToken and with fewer than limit events collected.
C9_StopsAtLimit ==
    /\ C9_RequestChain
    /\ (pc = "loop" /\ nreq >= 1) =>
          /\ "nextPageToken" \in DOMAIN response
          /\ Len(fetched) < args.limit

C9_StopsAtNonZeroLimit ==
    /\ C9_RequestChain
    /\ (pc = "loop" /\ nreq >= 1) =>
          /\ "nextPageToken" \in DOMAIN response
          /\ ~(args.limit # 0 /\ Len(fetched) >= args.limit)
    /\ (Succeeded /\ op = "find_many_events") =>
          \/ "nextPageToken" \notin DOMAIN response
          \/ (args.limit # 0 /\ Len(fetched) >= args.limit)

\* C9 amended: as above, but the count of events ends the loop only when
\* limit is not 0; with limit 0 the loop goes on until a response has no
\* nextPageToken.  A call whose remote API comes to a page without
\* nextPageToken ends.
C9_PaginationProtocol ==
    /\ []C9_StopsAtNonZeroLimit
    /\ (op = "find_many_events" /\ pc \in {"body", "loop", "wait"}) ~> (pc = "done")

C9_Witness ==
    /\ pc = "wait" /\ op = "find_many_events" /\ paginated
    /\ args.limit = 0 /\ nreq = 2 /\ fetched # <<>>
    /\ request[1].kwargs.pageToken = response.nextPageToken

\* C10: a client held in self.service was built from the credentials now
\* in self.credentials, no request goes through a client bound to replaced
\* credentials, and a call that finds valid credentials and a client runs
\* no OAuth flow and builds no client.
C10_ClientBoundToCurrentCredentials ==
    /\ service # None => service[1].credentials = credentials
    /\ \A i \in 1..Len(request) : request[i].credentials = credentials
    /\ (pc = "body" /\ authlog.validBefore /\ authlog.hadService) =>
          ~authlog.log.called /\ ~authlog.log.flowRan /\ ~authlog.built

====
